---- MODULE Spec2Model ----
(***************************************************************************)
(* Model of src/main.py: a Lexer that turns a source string into a list    *)
(* of tokens and a Parser that builds a dict from that list, run in the    *)
(* order main() runs them.  Strings are sequences of one-character         *)
(* strings.  Cursors are 0-based as in the code; a sequence s is read at   *)
(* index i as s[i + 1].                                                    *)
(***************************************************************************)
EXTENDS Integers, Sequences, FiniteSets, TLC

VARIABLES source, i, tokens, pc, pi, result, outcome, msg, shape, pairs

vars == <<source, i, tokens, pc, pi, result, outcome, msg, shape, pairs>>

(* ------------------------------ bounds --------------------------------- *)

\* longest source of the exhaustive family (every string over Chars)
MaxLen == 4

\* most pairs in an object text of the structured family
MaxPairs == 3

\* most pairs in an object text that is cut and closed off
MaxCutPairs == 2

(* ------------------------------ inputs --------------------------------- *)

QUOTE == "\""

Digits == {"0", "1", "2", "3", "4", "5", "6", "7", "8", "9"}

\* the alphabet of the exhaustive family: the seven characters the lexer
\* dispatches on (one digit), and two it does not: a tab and a minus
Chars == {" ", "{", "}", ",", ":", QUOTE, "1", "\t", "-"}

ShortSources == UNION {[1..n -> Chars] : n \in 0..MaxLen}

\* The structured family: the texts of flat objects written from a list of
\* (key, value) items, and those texts cut after some piece and closed off.
KeyContents == {<<"a">>, <<>>}

Zeros(n) == [j \in 1..n |-> 0]

\* a value as written: its kind, its characters, and for a number the
\* integer the digits denote and the binary64 number nearest to it, in binary
Written ==
    { [kind |-> "str", chars |-> <<"}", " ">>, bits |-> <<>>, nearest |-> <<>>],
      [kind |-> "num", chars |-> <<"0", "7">>, bits |-> <<1, 1, 1>>, nearest |-> <<1, 1, 1>>],
      \* 9007199254740993 = 2^53 + 1, halfway between the floats 2^53 and 2^53 + 2
      [kind |-> "num",
       chars |-> <<"9", "0", "0", "7", "1", "9", "9", "2", "5", "4", "7", "4", "0", "9", "9", "3">>,
       bits |-> <<1>> \o Zeros(52) \o <<1>>,
       nearest |-> <<1>> \o Zeros(53)] }

Items == [key : KeyContents, value : Written]

ItemLists == UNION {[1..n -> Items] : n \in 0..MaxPairs}

Quoted(chars) == <<QUOTE>> \o chars \o <<QUOTE>>

ValueText(w) == IF w.kind = "str" THEN Quoted(w.chars) ELSE w.chars

\* the pieces of the text of an object: "{", then key ":" value for each
\* item with "," between items, then "}"
ObjectPieces(ps) ==
    <<(<<"{">>)>>
    \o [j \in 1..(4 * Len(ps)) |->
          CASE j % 4 = 1 -> Quoted(ps[(j + 3) \div 4].key)
            [] j % 4 = 2 -> <<":">>
            [] j % 4 = 3 -> ValueText(ps[(j + 3) \div 4].value)
            [] j % 4 = 0 -> IF j = 4 * Len(ps) THEN <<"}">> ELSE <<",">>]
    \o (IF ps = <<>> THEN <<(<<"}">>)>> ELSE <<>>)

RECURSIVE Flatten(_)
Flatten(pieces) ==
    IF pieces = <<>> THEN <<>> ELSE pieces[1] \o Flatten(Tail(pieces))

ObjectText(ps) == Flatten(ObjectPieces(ps))

Tails == {<<>>, <<"}">>, <<" ">>, <<"{">>}

\* the first n pieces of an object text, followed by a tail
Cut(ps, n, tl) == Flatten(SubSeq(ObjectPieces(ps), 1, n)) \o tl

CutLists == UNION {[1..n -> Items] : n \in 0..MaxCutPairs}

CutSources ==
    UNION { { Cut(ps, n, tl) : n \in 0..Len(ObjectPieces(ps)), tl \in Tails } :
            ps \in CutLists }

(* ------------------------------ tokens --------------------------------- *)

TokenType == {"LSQUIRLY", "RSQUIRLY", "COMMA", "COLON", "STRING", "NUMBER", "EOF"}

Token(tok_type, lexeme) == [tok_type |-> tok_type, lexeme |-> lexeme]

(* ------------------------------- Lexer --------------------------------- *)

\* the outcome of a piece of lexer code: the cursor and token list it leaves,
\* and the exception it raised ("none" when it returned normally)
Ret(ni, ntokens, exc, m) == [i |-> ni, tokens |-> ntokens, exc |-> exc, msg |-> m]

is_digit(char) == char \in Digits

Lexer_is_at_end(src, k) == k >= Len(src)

make_token(toks, tok_type, lexeme) == Append(toks, Token(tok_type, lexeme))

\* while self.source[self.i] == " ": self.i += 1
\* the read source[i] raises IndexError when i is past the end
RECURSIVE consume_whitespace(_, _)
consume_whitespace(src, k) ==
    IF k >= Len(src) THEN [i |-> k, exc |-> "IndexError"]
    ELSE IF src[k + 1] = " " THEN consume_whitespace(src, k + 1)
    ELSE [i |-> k, exc |-> "none"]

\* the while loop of handle_string: the cursor after the string content
RECURSIVE string_content_end(_, _)
string_content_end(src, k) ==
    IF ~Lexer_is_at_end(src, k) /\ src[k + 1] # QUOTE
    THEN string_content_end(src, k + 1)
    ELSE k

\* a handle_string that keeps the content without its quotes as the lexeme
handle_string_bare(src, k, toks) ==
    LET start == k + 1
        stop  == string_content_end(src, start)
        key   == SubSeq(src, start + 1, stop)
    IN  IF Lexer_is_at_end(src, stop)
        THEN Ret(stop, toks, "LexException", "Unterminated string")
        ELSE Ret(stop + 1, make_token(toks, "STRING", key), "none", "")

handle_string(src, k, toks) ==
    LET start == k + 1
        stop  == string_content_end(src, start)
        key   == SubSeq(src, start + 1, stop)
    IN  IF Lexer_is_at_end(src, stop)
        THEN Ret(stop, toks, "LexException", "Unterminated string")
        ELSE Ret(stop + 1,
                 make_token(toks, "STRING", <<QUOTE>> \o key \o <<QUOTE>>),
                 "none", "")

\* the while loop of handle_number: the loop condition reads source[i]
\* before the body tests is_at_end()
RECURSIVE number_loop(_, _, _)
number_loop(src, k, key) ==
    IF k >= Len(src) THEN [i |-> k, key |-> key, exc |-> "IndexError", msg |-> ""]
    ELSE IF is_digit(src[k + 1])
    THEN IF Lexer_is_at_end(src, k)
         THEN [i |-> k, key |-> key, exc |-> "LexException",
               msg |-> "json input ended abruptly"]
         ELSE number_loop(src, k + 1, Append(key, src[k + 1]))
    ELSE [i |-> k, key |-> key, exc |-> "none", msg |-> ""]

handle_number(src, k, toks) ==
    LET r == number_loop(src, k, <<>>)
    IN  IF r.exc # "none" THEN Ret(r.i, toks, r.exc, r.msg)
        ELSE Ret(r.i, make_token(toks, "NUMBER", r.key), "none", "")

\* a consume that steps over a character it does not know
Lexer_consume_skips(src, k, toks) ==
    LET w == consume_whitespace(src, k)
    IN  IF w.exc # "none" THEN Ret(w.i, toks, w.exc, "")
        ELSE LET char == src[w.i + 1]
             IN  CASE char = "{" -> Ret(w.i + 1, make_token(toks, "LSQUIRLY", <<"{">>), "none", "")
                   [] char = "}" -> Ret(w.i + 1, make_token(toks, "RSQUIRLY", <<"}">>), "none", "")
                   [] char = "," -> Ret(w.i + 1, make_token(toks, "COMMA", <<",">>), "none", "")
                   [] char = ":" -> Ret(w.i + 1, make_token(toks, "COLON", <<":">>), "none", "")
                   [] char = QUOTE -> handle_string(src, w.i, toks)
                   [] is_digit(char) -> handle_number(src, w.i, toks)
                   [] OTHER -> Ret(w.i + 1, toks, "none", "")

Lexer_consume(src, k, toks) ==
    LET w == consume_whitespace(src, k)
    IN  IF w.exc # "none" THEN Ret(w.i, toks, w.exc, "")
        ELSE LET char == src[w.i + 1]
             IN  CASE char = "{" -> Ret(w.i + 1, make_token(toks, "LSQUIRLY", <<"{">>), "none", "")
                   [] char = "}" -> Ret(w.i + 1, make_token(toks, "RSQUIRLY", <<"}">>), "none", "")
                   [] char = "," -> Ret(w.i + 1, make_token(toks, "COMMA", <<",">>), "none", "")
                   [] char = ":" -> Ret(w.i + 1, make_token(toks, "COLON", <<":">>), "none", "")
                   [] char = QUOTE -> handle_string(src, w.i, toks)
                   [] is_digit(char) -> handle_number(src, w.i, toks)
                   [] OTHER -> Ret(w.i, toks, "LexException", "Unexpected character")

\* a lex that appends EOF only when it has scanned a token
lex_exit_nonempty(toks) ==
    IF toks = <<>> THEN toks ELSE make_token(toks, "EOF", <<>>)

\* the end of Lexer.lex, after its loop
lex_exit(toks) == make_token(toks, "EOF", <<>>)

\* Lexer.lex on a lexer whose cursor is k and whose token list is toks
RECURSIVE Lexer_lex(_, _, _)
Lexer_lex(src, k, toks) ==
    IF k < Len(src)
    THEN LET r == Lexer_consume(src, k, toks)
         IN  IF r.exc # "none" THEN r ELSE Lexer_lex(src, r.i, r.tokens)
    ELSE Ret(k, lex_exit(toks), "none", "")

(* ------------------------------ values --------------------------------- *)

\* the decimal value of a digit character
digit_value(char) ==
    CASE char = "0" -> 0 [] char = "1" -> 1 [] char = "2" -> 2 [] char = "3" -> 3
      [] char = "4" -> 4 [] char = "5" -> 5 [] char = "6" -> 6 [] char = "7" -> 7
      [] char = "8" -> 8 [] char = "9" -> 9

\* Numbers are kept in binary, most significant bit first, without leading
\* zeros (zero is the empty sequence), so that the 53-bit significand of a
\* Python float can be modelled at its real width.

\* half of a decimal numeral (digits 0..9, most significant first), rounded down
HalveDec(ds) ==
    [j \in 1..Len(ds) |->
        ((IF j = 1 THEN 0 ELSE ds[j - 1] % 2) * 10 + ds[j]) \div 2]

IsZeroDec(ds) == \A j \in 1..Len(ds) : ds[j] = 0

RECURSIVE DecToBits(_)
DecToBits(ds) ==
    IF IsZeroDec(ds) THEN <<>>
    ELSE Append(DecToBits(HalveDec(ds)), ds[Len(ds)] % 2)

\* the integer a run of digit characters denotes
RunValue(lexeme) == DecToBits([j \in 1..Len(lexeme) |-> digit_value(lexeme[j])])

RECURSIVE IncBits(_)
IncBits(b) ==
    IF b = <<>> THEN <<1>>
    ELSE IF b[Len(b)] = 0 THEN Append(SubSeq(b, 1, Len(b) - 1), 1)
    ELSE Append(IncBits(SubSeq(b, 1, Len(b) - 1)), 0)

\* significand bits of a Python float (IEEE 754 binary64)
SignificandBits == 53

\* bit length above which a binary64 value overflows to infinity
MaxFloatBits == 1024

\* the binary64 value nearest to the integer b, ties to even
RoundToFloat(b) ==
    IF Len(b) <= SignificandBits THEN b
    ELSE LET mant    == SubSeq(b, 1, SignificandBits)
             guard   == b[SignificandBits + 1]
             sticky  == \E j \in (SignificandBits + 2)..Len(b) : b[j] = 1
             roundUp == guard = 1 /\ (sticky \/ b[SignificandBits] = 1)
             kept    == IF roundUp THEN IncBits(mant) ELSE mant
             rounded == kept \o [j \in 1..(Len(b) - SignificandBits) |-> 0]
         IN  rounded

\* a float value: its bits, or infinity
Float(b) ==
    IF Len(b) > MaxFloatBits THEN [t |-> "float", inf |-> TRUE, bits |-> <<>>]
    ELSE [t |-> "float", inf |-> FALSE, bits |-> b]

\* float(curr.lexeme) for a lexeme that is a non-empty run of digits
float(lexeme) == Float(RoundToFloat(RunValue(lexeme)))

\* a str value
str(chars) == [t |-> "str", chars |-> chars]

\* lexeme[1:], which keeps the closing quote
Dequote_keeps_quote(lexeme) == SubSeq(lexeme, 2, Len(lexeme))

\* lexeme[1:-1]
Dequote(lexeme) == SubSeq(lexeme, 2, Len(lexeme) - 1)

\* A dict is the sequence of its items in insertion order.
HasKey(d, key) == \E j \in 1..Len(d) : d[j].key = key

\* self.result.setdefault(key, value): the first value of a key stays
dict_set_first(d, key, value) ==
    IF HasKey(d, key) THEN d ELSE Append(d, [key |-> key, value |-> value])

\* self.result[key] = value: an existing key keeps its place
dict_set(d, key, value) ==
    IF HasKey(d, key)
    THEN [j \in 1..Len(d) |-> IF d[j].key = key THEN [key |-> key, value |-> value] ELSE d[j]]
    ELSE Append(d, [key |-> key, value |-> value])

(* ------------------------------- Parser -------------------------------- *)

\* the outcome of a piece of parser code: the cursor it leaves, the
\* exception it raised ("none" when it returned), and the value it returned
PRet(ni, exc, m, val) == [i |-> ni, exc |-> exc, msg |-> m, val |-> val]

NoVal == <<>>

\* self.tokens[self.i] raises IndexError when the cursor is past the list
InTokens(toks, k) == 0 <= k /\ k < Len(toks)

curr(toks, k) == toks[k + 1]

Parser_is_at_end(toks, k) == curr(toks, k).tok_type = "EOF"

Unterminated == "json input ended without }"

\* a consume that compares lexemes without testing is_at_end() first
Parser_consume_unchecked(toks, k, expected) ==
    IF ~InTokens(toks, k) THEN PRet(k, "IndexError", "", NoVal)
    ELSE IF curr(toks, k).lexeme # expected
    THEN PRet(k, "ParseException", "Expected <expected> but got <found>", NoVal)
    ELSE PRet(k + 1, "none", "", NoVal)

\* a consume that leaves the cursor on the token it has accepted
Parser_consume_stays(toks, k, expected) ==
    IF ~InTokens(toks, k) THEN PRet(k, "IndexError", "", NoVal)
    ELSE IF Parser_is_at_end(toks, k) THEN PRet(k, "ParseException", Unterminated, NoVal)
    ELSE IF curr(toks, k).lexeme # expected
    THEN PRet(k, "ParseException", "Expected <expected> but got <found>", NoVal)
    ELSE PRet(k, "none", "", NoVal)

\* a consume that lets a token other than the expected one pass
Parser_consume_optional(toks, k, expected) ==
    IF ~InTokens(toks, k) THEN PRet(k, "IndexError", "", NoVal)
    ELSE IF Parser_is_at_end(toks, k) THEN PRet(k, "ParseException", Unterminated, NoVal)
    ELSE IF curr(toks, k).lexeme # expected THEN PRet(k, "none", "", NoVal)
    ELSE PRet(k + 1, "none", "", NoVal)

Parser_consume(toks, k, expected) ==
    IF ~InTokens(toks, k) THEN PRet(k, "IndexError", "", NoVal)
    ELSE IF Parser_is_at_end(toks, k) THEN PRet(k, "ParseException", Unterminated, NoVal)
    ELSE IF curr(toks, k).lexeme # expected
    THEN PRet(k, "ParseException", "Expected <expected> but got <found>", NoVal)
    ELSE PRet(k + 1, "none", "", NoVal)

Parser_match(toks, k, expected) ==
    IF ~InTokens(toks, k) THEN PRet(k, "IndexError", "", FALSE)
    ELSE IF Parser_is_at_end(toks, k) THEN PRet(k, "ParseException", Unterminated, FALSE)
    ELSE IF curr(toks, k).lexeme # expected THEN PRet(k, "none", "", FALSE)
    ELSE PRet(k + 1, "none", "", TRUE)

Parser_key(toks, k) ==
    IF ~InTokens(toks, k) THEN PRet(k, "IndexError", "", NoVal)
    ELSE IF Parser_is_at_end(toks, k) THEN PRet(k, "ParseException", "Expected string", NoVal)
    ELSE IF curr(toks, k).tok_type # "STRING"
    THEN PRet(k, "ParseException", "Expected string", NoVal)
    ELSE PRet(k + 1, "none", "", Dequote(curr(toks, k).lexeme))

\* a value that keeps its initial 0 for a token that is no string or number
Parser_value_default(toks, k) ==
    IF ~InTokens(toks, k) THEN PRet(k, "IndexError", "", NoVal)
    ELSE IF Parser_is_at_end(toks, k)
    THEN PRet(k, "ParseException", "Expected a value for the corresponding key", NoVal)
    ELSE CASE curr(toks, k).tok_type = "STRING"
                -> PRet(k + 1, "none", "", str(Dequote(curr(toks, k).lexeme)))
           [] curr(toks, k).tok_type = "NUMBER"
                -> PRet(k + 1, "none", "", float(curr(toks, k).lexeme))
           [] OTHER -> PRet(k, "none", "", Float(<<>>))

Parser_value(toks, k) ==
    IF ~InTokens(toks, k) THEN PRet(k, "IndexError", "", NoVal)
    ELSE IF Parser_is_at_end(toks, k)
    THEN PRet(k, "ParseException", "Expected a value for the corresponding key", NoVal)
    ELSE CASE curr(toks, k).tok_type = "STRING"
                -> PRet(k + 1, "none", "", str(Dequote(curr(toks, k).lexeme)))
           [] curr(toks, k).tok_type = "NUMBER"
                -> PRet(k + 1, "none", "", float(curr(toks, k).lexeme))
           [] OTHER -> PRet(k, "ParseException", "Expected string or number", NoVal)

\* Parser.pair: the cursor, the exception and the dict it leaves
Parser_pair(toks, k, d) ==
    LET ky == Parser_key(toks, k)
    IN  IF ky.exc # "none" THEN [i |-> ky.i, exc |-> ky.exc, msg |-> ky.msg, result |-> d]
        ELSE LET c == Parser_consume(toks, ky.i, <<":">>)
             IN  IF c.exc # "none" THEN [i |-> c.i, exc |-> c.exc, msg |-> c.msg, result |-> d]
                 ELSE LET v == Parser_value(toks, c.i)
                      IN  IF v.exc # "none"
                          THEN [i |-> v.i, exc |-> v.exc, msg |-> v.msg, result |-> d]
                          ELSE [i |-> v.i, exc |-> "none", msg |-> "",
                                result |-> dict_set(d, ky.val, v.val)]

\* the outcome of Parser.json: the cursor and dict it leaves, and the
\* exception it raised ("none" when it returned)
JRet(r, d) == [i |-> r.i, exc |-> r.exc, msg |-> r.msg, result |-> d]

\* the while loop of Parser.json, entered with cursor k and dict d
RECURSIVE Parser_json_loop(_, _, _)
Parser_json_loop(toks, k, d) ==
    IF ~InTokens(toks, k) THEN JRet(PRet(k, "IndexError", "", NoVal), d)
    ELSE IF Parser_is_at_end(toks, k)
    THEN JRet(PRet(k, "ParseException", Unterminated, NoVal), d)
    ELSE LET p == Parser_pair(toks, k, d)
         IN  IF p.exc # "none" THEN p
             ELSE LET m == Parser_match(toks, p.i, <<"}">>)
                  IN  IF m.exc # "none" \/ m.val THEN JRet(m, p.result)
                      ELSE LET c == Parser_consume(toks, m.i, <<",">>)
                           IN  IF c.exc # "none" THEN JRet(c, p.result)
                               ELSE Parser_json_loop(toks, c.i, p.result)

\* Parser.parse on a parser whose cursor is k and whose dict is d
Parser_parse(toks, k, d) ==
    IF ~InTokens(toks, k) THEN JRet(PRet(k, "IndexError", "", NoVal), d)
    ELSE IF Parser_is_at_end(toks, k) THEN JRet(PRet(k, "none", "", NoVal), d)
    ELSE LET c == Parser_consume(toks, k, <<"{">>)
         IN  IF c.exc # "none" THEN JRet(c, d)
             ELSE LET m == Parser_match(toks, c.i, <<"}">>)
                  IN  IF m.exc # "none" \/ m.val THEN JRet(m, d)
                      ELSE Parser_json_loop(toks, m.i, d)

(* ------------------------------ actions -------------------------------- *)

Init ==
    /\ \/ /\ source \in ShortSources
          /\ shape = "any"
          /\ pairs = <<>>
       \/ /\ pairs \in ItemLists
          /\ source = ObjectText(pairs)
          /\ shape = "object"
       \/ /\ source \in CutSources
          /\ shape = "cut"
          /\ pairs = <<>>
    /\ i = 0
    /\ tokens = <<>>
    /\ pc = "lex"
    /\ pi = 0
    /\ result = <<>>
    /\ outcome = "none"
    /\ msg = ""

\* one iteration of the loop of Lexer.lex: while self.i < len(self.source)
LexConsume ==
    /\ pc = "lex"
    /\ i < Len(source)
    /\ LET r == Lexer_consume(source, i, tokens)
       IN  /\ i' = r.i
           /\ tokens' = r.tokens
           /\ IF r.exc = "none"
              THEN UNCHANGED <<pc, outcome, msg>>
              ELSE /\ pc' = "done"
                   /\ outcome' = r.exc
                   /\ msg' = r.msg
    /\ UNCHANGED <<source, pi, result, shape, pairs>>

\* the exit of the loop of Lexer.lex: the EOF token, then Parser(tokens)
LexFinish ==
    /\ pc = "lex"
    /\ ~(i < Len(source))
    /\ tokens' = lex_exit(tokens)
    /\ pc' = "json"
    /\ pi' = 0
    /\ result' = <<>>
    /\ UNCHANGED <<source, i, outcome, msg, shape, pairs>>

\* the parser stops with an exception
Raise(r) ==
    /\ pc' = "done"
    /\ pi' = r.i
    /\ outcome' = r.exc
    /\ msg' = r.msg

\* Parser.json returns and Parser.parse returns self.result
Return(k) ==
    /\ pc' = "done"
    /\ pi' = k
    /\ outcome' = "result"
    /\ msg' = ""

\* a json that requires "{" even when the token list is EOF alone
JsonStart_requires_brace ==
    /\ pc = "json"
    /\ LET c == Parser_consume(tokens, pi, <<"{">>)
       IN  IF c.exc # "none" THEN Raise(c)
           ELSE LET m == Parser_match(tokens, c.i, <<"}">>)
                IN  IF m.exc # "none" THEN Raise(m)
                    ELSE IF m.val THEN Return(m.i)
                    ELSE /\ pc' = "loop"
                         /\ pi' = m.i
                         /\ UNCHANGED <<outcome, msg>>
    /\ UNCHANGED <<source, i, tokens, result, shape, pairs>>

\* Parser.json up to its loop: the empty input, the "{", the "{}" case
JsonStart ==
    /\ pc = "json"
    /\ IF ~InTokens(tokens, pi) THEN Raise(PRet(pi, "IndexError", "", NoVal))
       ELSE IF Parser_is_at_end(tokens, pi) THEN Return(pi)
       ELSE LET c == Parser_consume(tokens, pi, <<"{">>)
            IN  IF c.exc # "none" THEN Raise(c)
                ELSE LET m == Parser_match(tokens, c.i, <<"}">>)
                     IN  IF m.exc # "none" THEN Raise(m)
                         ELSE IF m.val THEN Return(m.i)
                         ELSE /\ pc' = "loop"
                              /\ pi' = m.i
                              /\ UNCHANGED <<outcome, msg>>
    /\ UNCHANGED <<source, i, tokens, result, shape, pairs>>

\* the loop test of Parser.json and, inside the loop, self.pair()
JsonPair ==
    /\ pc = "loop"
    /\ IF ~InTokens(tokens, pi)
       THEN Raise(PRet(pi, "IndexError", "", NoVal)) /\ UNCHANGED result
       ELSE IF Parser_is_at_end(tokens, pi)
       THEN Raise(PRet(pi, "ParseException", Unterminated, NoVal)) /\ UNCHANGED result
       ELSE LET p == Parser_pair(tokens, pi, result)
            IN  IF p.exc # "none" THEN Raise(p) /\ UNCHANGED result
                ELSE /\ pc' = "sep"
                     /\ pi' = p.i
                     /\ result' = p.result
                     /\ UNCHANGED <<outcome, msg>>
    /\ UNCHANGED <<source, i, tokens, shape, pairs>>

\* a loop body that, after the ",", also takes a "}" and returns
JsonSep_lenient ==
    /\ pc = "sep"
    /\ LET m == Parser_match(tokens, pi, <<"}">>)
       IN  IF m.exc # "none" THEN Raise(m)
           ELSE IF m.val THEN Return(m.i)
           ELSE LET c == Parser_consume(tokens, m.i, <<",">>)
                IN  IF c.exc # "none" THEN Raise(c)
                    ELSE LET m2 == Parser_match(tokens, c.i, <<"}">>)
                         IN  IF m2.exc = "none" /\ m2.val THEN Return(m2.i)
                             ELSE /\ pc' = "loop"
                                  /\ pi' = c.i
                                  /\ UNCHANGED <<outcome, msg>>
    /\ UNCHANGED <<source, i, tokens, result, shape, pairs>>

\* the rest of the loop body: if self.match("}"): return, else self.consume(",")
JsonSep ==
    /\ pc = "sep"
    /\ LET m == Parser_match(tokens, pi, <<"}">>)
       IN  IF m.exc # "none" THEN Raise(m)
           ELSE IF m.val THEN Return(m.i)
           ELSE LET c == Parser_consume(tokens, m.i, <<",">>)
                IN  IF c.exc # "none" THEN Raise(c)
                    ELSE /\ pc' = "loop"
                         /\ pi' = c.i
                         /\ UNCHANGED <<outcome, msg>>
    /\ UNCHANGED <<source, i, tokens, result, shape, pairs>>

Next == LexConsume \/ LexFinish \/ JsonStart \/ JsonPair \/ JsonSep

Spec == Init /\ [][Next]_vars

(* ------------------------- properties: helpers ------------------------- *)

\* Lexer.lex returned a token list: only LexFinish writes an EOF token
Lexed == tokens # <<>> /\ tokens[Len(tokens)].tok_type = "EOF"

Done == pc = "done"

\* the value a written value denotes, a number being the integer of its digits
ExactValue(w) == IF w.kind = "str" THEN str(w.chars) ELSE Float(w.bits)

\* the value a written value denotes, a number being the nearest binary64 number
NearestValue(w) == IF w.kind = "str" THEN str(w.chars) ELSE Float(w.nearest)

FirstOcc(ps, key) ==
    CHOOSE m \in 1..Len(ps) :
        ps[m].key = key /\ \A m2 \in 1..(m - 1) : ps[m2].key # key

LastOcc(ps, key) ==
    CHOOSE m \in 1..Len(ps) :
        ps[m].key = key /\ \A m2 \in (m + 1)..Len(ps) : ps[m2].key # key

\* d holds exactly the keys of ps, each once, bound to the value V gives for
\* the last item of ps with that key
MapsLast(d, ps, V(_)) ==
    /\ \A m \in 1..Len(ps) : \E j \in 1..Len(d) : d[j].key = ps[m].key
    /\ \A j \in 1..Len(d) : \E m \in 1..Len(ps) : ps[m].key = d[j].key
    /\ \A j, j2 \in 1..Len(d) : d[j].key = d[j2].key => j = j2
    /\ \A j \in 1..Len(d) :
          HasKey(ps, d[j].key) => d[j].value = V(ps[LastOcc(ps, d[j].key)].value)

\* the grammar of the parser, on token kinds:
\* EOF | '{' '}' EOF | '{' pair (',' pair)* '}' EOF, pair = STRING ':' (STRING | NUMBER)
IsJsonTokens(toks) ==
    LET n == Len(toks)
        kind(j) == toks[j].tok_type
    IN  \/ n = 1 /\ kind(1) = "EOF"
        \/ /\ n >= 3
           /\ kind(1) = "LSQUIRLY" /\ kind(n - 1) = "RSQUIRLY" /\ kind(n) = "EOF"
           /\ n = 3 \/ (n - 3) % 4 = 3
           /\ \A j \in 1..(n - 3) :
                CASE j % 4 = 1 -> kind(j + 1) = "STRING"
                  [] j % 4 = 2 -> kind(j + 1) = "COLON"
                  [] j % 4 = 3 -> kind(j + 1) \in {"STRING", "NUMBER"}
                  [] j % 4 = 0 -> kind(j + 1) = "COMMA"

(* ------------------------------ claims --------------------------------- *)

\* C1 (as claimed): a run ends with a result mapping, a LexException or a
\* ParseException, and with nothing else.
C1_ThreeOutcomes ==
    Done => outcome \in {"result", "LexException", "ParseException"}

\* C2 (as claimed): the text of a flat object parses to the mapping of its
\* dequoted keys to the dequoted string or the number equal to the digit run,
\* of the last occurrence of each key.
C2_ExactMapping ==
    (shape = "object" /\ Done) =>
        outcome = "result" /\ MapsLast(result, pairs, ExactValue)

\* C2 (amended): the same, a number value being the float nearest to the
\* digit run, which is the number of the digit run when that fits 53 bits.
C2_NearestMapping ==
    (shape = "object" /\ Done) =>
        /\ outcome = "result"
        /\ MapsLast(result, pairs, NearestValue)
        /\ \A m \in 1..Len(pairs) :
              Len(pairs[m].value.bits) <= SignificandBits
                  => NearestValue(pairs[m].value) = ExactValue(pairs[m].value)

\* an object with a string value and then, under the same key, a number
\* above 2^53 has been parsed
C2_Witness ==
    /\ shape = "object" /\ Done /\ outcome = "result"
    /\ Len(pairs) = 2
    /\ pairs[1].key = pairs[2].key
    /\ pairs[1].value.kind = "str"
    /\ Len(pairs[2].value.bits) > SignificandBits
    /\ Len(result) = 1

\* C3 (as claimed): parse returns a mapping only for a token list that is
\* EOF alone or one object followed at once by EOF, and fails with
\* ParseException for every other token list.
C3_OnlyWholeObjects ==
    (Done /\ Lexed) =>
        /\ outcome = "result" => IsJsonTokens(tokens)
        /\ ~IsJsonTokens(tokens) => outcome = "ParseException"

\* the source with a space put in at cursor k
WithSpaceAt(src, k) == SubSeq(src, 1, k) \o <<" ">> \o SubSeq(src, k + 1, Len(src))

\* C4 (as claimed): a space put in where the lexer stands between two
\* tokens, before the first or after the last does not change the tokens
\* lex returns, and taking it out does not either.
C4_SpacesIgnored ==
    (pc = "lex" /\ source # <<>>) =>
        LET plain  == Lexer_lex(source, 0, <<>>)
            spaced == Lexer_lex(WithSpaceAt(source, i), 0, <<>>)
        IN  (plain.exc = "none" \/ spaced.exc = "none") =>
                /\ plain.exc = spaced.exc
                /\ plain.tokens = spaced.tokens

\* the length of the longest run of digits of src that starts at cursor k
MaximalRun(src, k) ==
    CHOOSE n \in 0..(Len(src) - k) :
        /\ \A j \in 1..n : src[k + j] \in Digits
        /\ k + n = Len(src) \/ src[k + n + 1] \notin Digits

\* the cursor after the spaces at cursor k
AfterSpaces(src, k) ==
    CHOOSE m \in k..Len(src) :
        /\ \A j \in (k + 1)..m : src[j] = " "
        /\ m = Len(src) \/ src[m + 1] # " "

\* C5 (as claimed): when the lexer meets a digit it appends one NUMBER token
\* whose lexeme is the longest run of digits from there, whether the run ends
\* at another character or at the end of the source.
C5_MaximalDigitRun ==
    [][ (LexConsume /\ AfterSpaces(source, i) < Len(source)
                    /\ source[AfterSpaces(source, i) + 1] \in Digits) =>
          LET at == AfterSpaces(source, i)
              n  == MaximalRun(source, at)
          IN  /\ tokens' = Append(tokens, Token("NUMBER", SubSeq(source, at + 1, at + n)))
              /\ i' = at + n
              /\ outcome' = "none" ]_vars

\* Lexer.lex has returned its token list (the parser runs, or has ended)
LexReturned ==
    \/ pc \in {"json", "loop", "sep"}
    \/ Done /\ outcome \in {"result", "ParseException"}

\* C6: the token list a successful lex returns, the empty source included,
\* ends with the EOF token (empty lexeme) and has no EOF token before it.
C6_EofLastOnly ==
    LexReturned =>
        /\ Len(tokens) >= 1
        /\ tokens[Len(tokens)] = Token("EOF", <<>>)
        /\ \A j \in 1..(Len(tokens) - 1) : tokens[j].tok_type # "EOF"

\* lex has returned the tokens of a source with a string and a number in it
C6_Witness ==
    /\ LexReturned
    /\ Len(tokens) >= 4
    /\ \E j \in 1..Len(tokens) : tokens[j].tok_type = "NUMBER"
    /\ \E j \in 1..Len(tokens) : tokens[j].tok_type = "STRING"

\* the number of quote characters among the first k characters
RECURSIVE QuotesBefore(_, _)
QuotesBefore(src, k) ==
    IF k = 0 THEN 0
    ELSE QuotesBefore(src, k - 1) + (IF src[k] = QUOTE THEN 1 ELSE 0)

\* the characters the lexer accepts outside a string
Lexable == {" ", "{", "}", ",", ":", QUOTE} \cup Digits

\* character k stands outside every string literal and is not accepted there
BadOutside(src, k) == src[k] \notin Lexable /\ QuotesBefore(src, k - 1) % 2 = 0

\* the source ends inside a string literal
EndsInString(src) == QuotesBefore(src, Len(src)) % 2 = 1

\* C7 (as claimed): lex fails with LexException exactly when the source ends
\* inside a string or has a character outside a string that is not a space,
\* a structural character, a quote or a digit; it then stops at the first
\* such character; in every other case it succeeds.
C7_LexFailsExactly ==
    pc # "lex" =>
        IF \E k \in 1..Len(source) : BadOutside(source, k)
        THEN LET first == CHOOSE k \in 1..Len(source) :
                             /\ BadOutside(source, k)
                             /\ \A k2 \in 1..(k - 1) : ~BadOutside(source, k2)
             IN  /\ Done /\ outcome = "LexException" /\ msg = "Unexpected character"
                 /\ i = first - 1
        ELSE IF EndsInString(source)
        THEN Done /\ outcome = "LexException" /\ msg = "Unterminated string"
        ELSE LexReturned

\* the parser, on a token list that starts with "{", stands at the EOF token
\* without having passed a "}"
ReachedEofUnclosed ==
    /\ Done /\ Lexed
    /\ tokens[1].tok_type = "LSQUIRLY"
    /\ InTokens(tokens, pi)
    /\ tokens[pi + 1].tok_type = "EOF"
    /\ \A j \in 1..pi : tokens[j].tok_type # "RSQUIRLY"

\* C8 (as claimed): when the token list starts with "{" and the parser
\* reaches EOF before a "}", parse fails with the ParseException "json input
\* ended without }", wherever EOF stands.
C8_UnterminatedMessage ==
    ReachedEofUnclosed => outcome = "ParseException" /\ msg = Unterminated

\* C8 (amended): it fails with a ParseException, whose message is "json
\* input ended without }" when EOF stands after "{", a key, a value or a
\* ",", and "Expected a value for the corresponding key" when it stands
\* after a ":".
C8_UnterminatedOrNoValue ==
    ReachedEofUnclosed =>
        /\ outcome = "ParseException"
        /\ msg = IF tokens[pi].tok_type = "COLON"
                 THEN "Expected a value for the corresponding key"
                 ELSE Unterminated

\* the parser has met EOF right after the "," that follows a first pair
C8_Witness ==
    /\ ReachedEofUnclosed
    /\ pi = 5
    /\ tokens[pi].tok_type = "COMMA"

\* a "}" follows a "," at token k, inside the object: the list starts with
\* "{" and has no "}" before that one
TrailingCommaAt(toks, k) ==
    /\ toks[1].tok_type = "LSQUIRLY"
    /\ k + 1 <= Len(toks)
    /\ toks[k].tok_type = "COMMA"
    /\ toks[k + 1].tok_type = "RSQUIRLY"
    /\ \A j \in 1..k : toks[j].tok_type # "RSQUIRLY"

\* C9: a token list with a "}" right after a "," inside the object makes
\* parse fail with ParseException and return no mapping; when the parser
\* gets as far as that "}", it rejects it as the start of a pair.
C9_TrailingCommaRejected ==
    (Done /\ Lexed) =>
        \A k \in 1..Len(tokens) :
            TrailingCommaAt(tokens, k) =>
                /\ outcome = "ParseException"
                /\ pi <= k
                /\ pi = k => msg = "Expected string"

\* the parser has stopped at the "}" that follows the "," after a pair
C9_Witness ==
    /\ Done /\ Lexed
    /\ pi >= 5
    /\ TrailingCommaAt(tokens, pi)
    /\ result # <<>>

HasDuplicate(ps) == \E m, m2 \in 1..Len(ps) : m # m2 /\ ps[m].key = ps[m2].key

\* C10: an object in which a key occurs several times parses without error;
\* the mapping holds each key once, bound to the value of its last
\* occurrence, at the position of its first insertion.
C10_LastWriteWins ==
    (shape = "object" /\ Done /\ HasDuplicate(pairs)) =>
        /\ outcome = "result"
        /\ \A m \in 1..Len(pairs) :
              LET key  == pairs[m].key
                  at   == Cardinality({pairs[m2].key : m2 \in 1..FirstOcc(pairs, key)})
              IN  /\ at <= Len(result)
                  /\ result[at].key = key
                  /\ result[at].value = NearestValue(pairs[LastOcc(pairs, key)].value)
                  /\ \A j \in 1..Len(result) : result[j].key = key => j = at

\* an object whose first key comes back, with another value, after a second
\* key has been parsed
C10_Witness ==
    /\ shape = "object" /\ Done /\ outcome = "result"
    /\ Len(pairs) = 3
    /\ pairs[1].key = pairs[3].key
    /\ pairs[1].key # pairs[2].key
    /\ pairs[1].value # pairs[3].value
    /\ Len(result) = 2

\* C11: the empty source and the source "{}" both lex and parse without
\* error, to an empty mapping.
C11_EmptyInputs ==
    (Done /\ source \in {<<>>, <<"{", "}">>}) =>
        outcome = "result" /\ result = <<>>

\* the empty source has been lexed to EOF alone and parsed
C11_Witness ==
    /\ Done
    /\ source = <<>>
    /\ tokens = <<Token("EOF", <<>>)>>
    /\ outcome = "result"

\* C12: after a pair has been parsed the parser goes on only on a ",", back
\* to expecting a pair, and on a "}", to its return; on any other token and
\* on EOF it fails.  Once it has returned or failed, it consumes no token.
C12_StateMachine ==
    [][ /\ pc = "sep" =>
              LET kind == tokens[pi + 1].tok_type
              IN  CASE kind = "COMMA" ->
                         pc' = "loop" /\ pi' = pi + 1 /\ outcome' = "none"
                    [] kind = "RSQUIRLY" ->
                         pc' = "done" /\ pi' = pi + 1 /\ outcome' = "result"
                    [] OTHER ->
                         pc' = "done" /\ pi' = pi /\ outcome' = "ParseException"
        /\ pc = "done" => pc' = "done" /\ pi' = pi /\ outcome' = outcome
      ]_vars

\* the parser has failed on the "{" that follows its first pair
C12_Witness ==
    /\ Done /\ outcome = "ParseException"
    /\ Len(result) = 1
    /\ pi = 4
    /\ tokens[pi + 1].tok_type = "LSQUIRLY"

\* C13: the mapping is empty when the Parser is constructed, and it changes
\* only in the step that accepts a whole pair, its key, ":" and value all
\* consumed; every other step, a failing one included, leaves it as it was.
C13_OnlyPairWrites ==
    [][ /\ (pc = "lex" /\ pc' = "json") => result' = <<>>
        /\ result' # result =>
              /\ pc = "loop" /\ pc' = "sep"
              /\ outcome' = "none"
              /\ pi' = pi + 3
              /\ tokens[pi + 1].tok_type = "STRING"
              /\ tokens[pi + 2].tok_type = "COLON"
              /\ tokens[pi + 3].tok_type \in {"STRING", "NUMBER"}
        /\ (pc' = "done" /\ outcome' # "result") => result' = result
      ]_vars

\* the parser has failed inside its second pair, after writing the first
C13_Witness ==
    /\ Done /\ outcome = "ParseException"
    /\ Len(result) = 1
    /\ pi > 5

\* the source has a lexical error: a character the lexer does not accept,
\* outside a string, or a string that is not closed
HasLexicalError(src) ==
    \/ \E k \in 1..Len(src) : BadOutside(src, k)
    \/ EndsInString(src)

\* C14: when the source has a lexical error anywhere, the run ends with a
\* LexException and the parser is never run, also when the tokens before
\* the error already break the grammar.
C14_LexBeforeParse ==
    HasLexicalError(source) =>
        /\ pc \in {"lex", "done"}
        /\ Done => outcome = "LexException"
        /\ pi = 0
        /\ result = <<>>

\* the run has ended with a LexException after the lexer had emitted, as
\* its first token, a "}" that no parse accepts
C14_Witness ==
    /\ Done /\ outcome = "LexException"
    /\ tokens # <<>>
    /\ tokens[1].tok_type = "RSQUIRLY"
    /\ pi = 0

\* C15: lex and parse terminate on every input: an iteration of the scan
\* loop moves the scan cursor forward or fails, a step of the parser moves
\* the parse cursor forward or ends the parse, and no cursor ever moves
\* back or leaves its sequence; the scan is never taken up again once the
\* parse has begun.
C15_Terminates ==
    [][ /\ i' >= i /\ i' <= Len(source)
        /\ pi' >= pi /\ pi' <= Len(tokens')
        /\ (pc = "lex" /\ i < Len(source)) => (i' > i \/ pc' = "done")
        /\ pc \in {"json", "loop", "sep"} => (pi' > pi \/ pc' = "done")
        /\ pc' = "lex" => pc = "lex"
        /\ pc' = "json" => pc = "lex"
      ]_vars

\* the run has ended after the scan of the whole source and two turns of
\* the parser's loop
C15_Witness ==
    /\ Done
    /\ i = Len(source)
    /\ Len(result) = 2
    /\ pi = Len(tokens) - 1

\* the outcome of a call, as main() sees it
Seen(exc) == IF exc = "none" THEN "result" ELSE exc

\* C16 (as claimed): a second lex() on the same Lexer, and a second parse()
\* on the same Parser, give what the first call gave (the same tokens or
\* error, the same mapping or error), and the token list the first lex()
\* returned is as it was.
C16_Repeatable ==
    /\ pc = "json" =>
          LET again == Lexer_lex(source, i, tokens)
          IN  again.exc = "none" /\ again.tokens = tokens
    /\ (Done /\ outcome = "LexException") =>
          LET again == Lexer_lex(source, i, tokens)
          IN  again.exc = outcome /\ again.msg = msg
    /\ (Done /\ Lexed) =>
          LET again == Parser_parse(tokens, pi, result)
          IN  /\ Seen(again.exc) = outcome
              /\ again.msg = msg
              /\ again.result = result

\* C17 (as claimed): every read through a cursor is in bounds: the lexer
\* never reads source[i] and the parser never reads tokens[i] outside the
\* sequence (an out-of-bounds read is the IndexError outcome).
C17_ReadsInBounds ==
    /\ 0 <= i /\ 0 <= pi
    /\ pc \in {"json", "loop", "sep"} => InTokens(tokens, pi)
    /\ outcome # "IndexError"

\* the kind of the structural token written as the character c
StructuralKind(c) ==
    CASE c = "{" -> "LSQUIRLY" [] c = "}" -> "RSQUIRLY"
      [] c = "," -> "COMMA"    [] c = ":" -> "COLON"

\* C18: for every token the lexer emits, the lexeme is "{", "}", "," or ":"
\* exactly when the kind is the structural kind of that character, so the
\* parser's comparison of lexemes never takes a string for structure.
C18_LexemeMeansKind ==
    \A j \in 1..Len(tokens) :
        \A c \in {"{", "}", ",", ":"} :
            tokens[j].lexeme = <<c>> <=> tokens[j].tok_type = StructuralKind(c)

\* the parser has stood on a string token whose content is "}" alone
C18_Witness ==
    /\ Done /\ Lexed
    /\ \E j \in 1..(pi + 1) :
          /\ tokens[j].tok_type = "STRING"
          /\ Dequote(tokens[j].lexeme) = <<"}">>

====
